---- MODULE Spec2Model ----
(***************************************************************************)
(* The number-guessing game of src/main.rs as a state machine.             *)
(*                                                                         *)
(* main() is one sequential program; every statement with an observable    *)
(* effect is one action and pc is the position in main().  Text is a       *)
(* sequence of one-character strings, a u32 is a pair of 16-bit limbs      *)
(* (hi * 65536 + lo), so that the whole range 0 .. 2^32 - 1 and the        *)
(* parser's overflow check are represented exactly.  Writes to standard    *)
(* output are taken to succeed (println! panics when they do not).         *)
(***************************************************************************)
EXTENDS Naturals, Sequences, FiniteSets

VARIABLES
    pc,             \* position in main()
    secret_number,  \* let secret_number (u32), line 29
    guess,          \* let mut guess = String::new(), line 35
    guess_num,      \* let guess: u32, the shadowing binding of line 69
    out,            \* lines written to standard output, in order
    err,            \* lines written to standard error, in order
    consumed,       \* results of the read_line calls made so far, in order
    player          \* the bisecting player's interval (SpecBisect only)

vars == <<pc, secret_number, guess, guess_num, out, err, consumed, player>>

\* How many read_line calls the game specification follows.
MaxReads == 2

(***************************************************************************)
(* u32                                                                     *)
(***************************************************************************)
Limb == 65536

U32(n) == [hi |-> n \div Limb, lo |-> n % Limb]

U32Max == [hi |-> Limb - 1, lo |-> Limb - 1]

\* gen_range(1..=100): the inclusive range of line 29.
SecretLow == 1

SecretHigh == 100

\* gen_range(1..=101)
SecretRangePastHigh == SecretLow .. SecretHigh + 1

SecretRange == SecretLow .. SecretHigh

\* secret_number.cmp(&guess): the operands of line 93 exchanged.
CmpReversed(a, b) ==
    IF b.hi < a.hi THEN "Less"
    ELSE IF b.hi > a.hi THEN "Greater"
    ELSE IF b.lo < a.lo THEN "Less"
    ELSE IF b.lo > a.lo THEN "Greater"
    ELSE "Equal"

\* u32::cmp, the Ordering of line 93.
Cmp(a, b) ==
    IF a.hi < b.hi THEN "Less"
    ELSE IF a.hi > b.hi THEN "Greater"
    ELSE IF a.lo < b.lo THEN "Less"
    ELSE IF a.lo > b.lo THEN "Greater"
    ELSE "Equal"

\* acc * 10 + d in u32 arithmetic without the overflow check: wraps mod 2^32.
WrappingMul10Add(acc, d) ==
    LET lo10 == acc.lo * 10 + d
        hi10 == acc.hi * 10 + lo10 \div Limb
    IN  [ok |-> TRUE, num |-> [hi |-> hi10 % Limb, lo |-> lo10 % Limb]]

\* checked_mul(10) followed by checked_add(d): Err (PosOverflow) past u32::MAX.
CheckedMul10Add(acc, d) ==
    LET lo10 == acc.lo * 10 + d
        hi10 == acc.hi * 10 + lo10 \div Limb
    IN  IF hi10 >= Limb
        THEN [ok |-> FALSE, num |-> U32(0)]
        ELSE [ok |-> TRUE, num |-> [hi |-> hi10, lo |-> lo10 % Limb]]

(***************************************************************************)
(* Text                                                                    *)
(***************************************************************************)
Digits == <<"0", "1", "2", "3", "4", "5", "6", "7", "8", "9">>

DigitSet == {Digits[i] : i \in 1 .. 10}

DigitValues == [c \in DigitSet |-> (CHOOSE i \in 1 .. 10 : Digits[i] = c) - 1]

\* char::to_digit(10)
IsDigit(c) == c \in DigitSet

DigitVal(c) == DigitValues[c]

\* char::is_whitespace, on the characters the inputs use.
IsWhitespace(c) == c \in {" ", "\t", "\n", "\r"}

RECURSIVE TrimStart(_)
TrimStart(s) ==
    IF s # <<>> /\ IsWhitespace(Head(s)) THEN TrimStart(Tail(s)) ELSE s

RECURSIVE TrimEnd(_)
TrimEnd(s) ==
    IF s # <<>> /\ IsWhitespace(s[Len(s)])
    THEN TrimEnd(SubSeq(s, 1, Len(s) - 1))
    ELSE s

\* str::trim of line 69.
Trim(s) == TrimEnd(TrimStart(s))

RECURSIVE ParseDigits(_, _)
ParseDigits(s, acc) ==
    IF s = <<>> THEN [ok |-> TRUE, num |-> acc]
    ELSE IF ~IsDigit(Head(s)) THEN [ok |-> FALSE, num |-> U32(0)]
    ELSE LET r == CheckedMul10Add(acc, DigitVal(Head(s)))
         IN  IF r.ok THEN ParseDigits(Tail(s), r.num) ELSE r

\* str::parse::<u32> of line 69: an optional "+", then decimal digits; the
\* empty text, a lone sign, any other character and overflow are Err.
Parse(s) ==
    IF s = <<>> THEN [ok |-> FALSE, num |-> U32(0)]
    ELSE IF Len(s) = 1 /\ s[1] \in {"+", "-"} THEN [ok |-> FALSE, num |-> U32(0)]
    ELSE ParseDigits(IF s[1] = "+" THEN Tail(s) ELSE s, U32(0))

\* The Display of a u32, the {guess} and {secret_number} of lines 30 and 79.
RECURSIVE Fmt(_)
Fmt(v) ==
    LET t == (v.hi % 10) * Limb + v.lo
        q == [hi |-> v.hi \div 10, lo |-> t \div 10]
    IN  IF v.hi = 0 /\ v.lo < 10
        THEN <<Digits[v.lo + 1]>>
        ELSE Fmt(q) \o <<Digits[(t % 10) + 1]>>

\* One line of output: the literal text of the println! and its argument.
Line(text, arg) == [text |-> text, arg |-> arg]

BannerLine == Line("Guess the Number", <<>>)

RevealLine(n) == Line("The secret number is ", Fmt(n))

PromptLine == Line("Please input you guess", <<>>)

GuessedLine(n) == Line("You guessed: ", Fmt(n))

TooSmallLine == Line("Too small!!", <<>>)

TooBigLine == Line("Too big!!", <<>>)

WinLine == Line("You win!!", <<>>)

PanicLine == Line("Failed to read line", <<>>)

(***************************************************************************)
(* Standard input                                                          *)
(***************************************************************************)
ReadResult(kind, text) == [kind |-> kind, text |-> text]

Eof == ReadResult("eof", <<>>)

IoErr == ReadResult("err", <<>>)

\* The decimal text of 2^32 + n for n <= 100: 4294967296 + n.
Past32(n) == <<"4", "2", "9", "4", "9", "6">> \o Fmt(U32(7296 + n))

\* The lines the game specification feeds the program, for secret n: a
\* winning, a smaller and a larger guess with the decorations trim and
\* parse accept, the largest u32, a text past the u32 range, and the
\* unparsable texts.
Lines(n) ==
    { Fmt(U32(n)) \o <<"\n">>,
      <<" ">> \o Fmt(U32(n - 1)) \o <<"\t", "\n">>,
      <<"+">> \o Fmt(U32(n + 1)) \o <<"\r", "\n">>,
      Fmt(U32Max) \o <<"\n">>,
      Past32(n) \o <<"\n">>,
      <<"-", "5", "\n">>,
      <<"a", "b", "c", "\n">>,
      <<"\n">> }

\* A stream that has reported end of input stays at end of input.
Closed == \E i \in 1 .. Len(consumed) : consumed[i].kind = "eof"

(***************************************************************************)
(* main()                                                                  *)
(***************************************************************************)
Init ==
    /\ pc = "banner"
    /\ secret_number = U32(0)
    /\ guess = <<>>
    /\ guess_num = U32(0)
    /\ out = <<>>
    /\ err = <<>>
    /\ consumed = <<>>
    /\ player = [lo |-> SecretLow, hi |-> SecretHigh]

\* line 15
Banner ==
    /\ pc = "banner"
    /\ out' = Append(out, BannerLine)
    /\ pc' = "gen"
    /\ UNCHANGED <<secret_number, guess, guess_num, err, consumed, player>>

\* line 29
GenRange ==
    /\ pc = "gen"
    /\ \E n \in SecretRange : secret_number' = U32(n)
    /\ pc' = "reveal"
    /\ UNCHANGED <<guess, guess_num, out, err, consumed, player>>

\* line 30
Reveal ==
    /\ pc = "reveal"
    /\ out' = Append(out, RevealLine(secret_number))
    /\ pc' = "prompt"
    /\ UNCHANGED <<secret_number, guess, guess_num, err, consumed, player>>

\* lines 32-35: the prompt and the fresh String
Prompt ==
    /\ pc = "prompt"
    /\ out' = Append(out, PromptLine)
    /\ guess' = <<>>
    /\ pc' = "read"
    /\ UNCHANGED <<secret_number, guess_num, err, consumed, player>>

\* lines 42-58, read_line returns Ok(n) with n > 0: the line, with its line
\* end, is appended to guess.
ReadOk(text) ==
    /\ pc = "read"
    /\ consumed' = Append(consumed, ReadResult("line", text))
    /\ guess' = guess \o text
    /\ pc' = "parse"
    /\ UNCHANGED <<secret_number, guess_num, out, err>>

\* The game specification's input: any of Lines, while the stream is open.
ReadLine ==
    /\ Len(consumed) < MaxReads
    /\ ~Closed
    /\ \E text \in Lines(secret_number.lo) : ReadOk(text)
    /\ UNCHANGED player

\* lines 42-58, read_line returns Ok(0) at end of input: guess is left as it
\* is and expect() returns normally.
ReadEof ==
    /\ pc = "read"
    /\ Len(consumed) < MaxReads
    /\ consumed' = Append(consumed, Eof)
    /\ pc' = "parse"
    /\ UNCHANGED <<secret_number, guess, guess_num, out, err, player>>

\* A read error that is swallowed: the loop goes on to parse.
ReadErrIgnored ==
    /\ pc = "read"
    /\ Len(consumed) < MaxReads
    /\ ~Closed
    /\ consumed' = Append(consumed, IoErr)
    /\ pc' = "parse"
    /\ UNCHANGED <<secret_number, guess, guess_num, out, err, player>>

\* lines 42-58, read_line returns Err: expect() panics with its message.
ReadErr ==
    /\ pc = "read"
    /\ Len(consumed) < MaxReads
    /\ ~Closed
    /\ consumed' = Append(consumed, IoErr)
    /\ err' = Append(err, PanicLine)
    /\ pc' = "panicked"
    /\ UNCHANGED <<secret_number, guess, guess_num, out, player>>

\* lines 69-72 with the Err arm replaced by a default guess of 0.
ParseGuessOrZero ==
    /\ pc = "parse"
    /\ LET r == Parse(Trim(guess))
       IN  /\ guess_num' = IF r.ok THEN r.num ELSE U32(0)
           /\ pc' = "echo"
    /\ guess' = <<>>
    /\ UNCHANGED <<secret_number, out, err, consumed, player>>

\* lines 69-72 with the Err arm leaving the loop instead of continuing.
ParseGuessBreakOnErr ==
    /\ pc = "parse"
    /\ LET r == Parse(Trim(guess))
       IN  IF r.ok
           THEN /\ guess_num' = r.num
                /\ pc' = "echo"
           ELSE /\ guess_num' = guess_num
                /\ pc' = "done"
    /\ guess' = <<>>
    /\ UNCHANGED <<secret_number, out, err, consumed, player>>

\* lines 69-72: Ok(num) binds the u32 guess, Err(_) is `continue`.  The
\* String is shadowed from here on, and dropped with the iteration.
ParseGuess ==
    /\ pc = "parse"
    /\ LET r == Parse(Trim(guess))
       IN  IF r.ok
           THEN /\ guess_num' = r.num
                /\ pc' = "echo"
           ELSE /\ guess_num' = guess_num
                /\ pc' = "prompt"
    /\ guess' = <<>>
    /\ UNCHANGED <<secret_number, out, err, consumed, player>>

\* line 79
EchoGuess ==
    /\ pc = "echo"
    /\ out' = Append(out, GuessedLine(guess_num))
    /\ pc' = "cmp"
    /\ UNCHANGED <<secret_number, guess, guess_num, err, consumed, player>>

\* lines 93-100 with the break moved to the Less arm.
CompareBreakOnLess ==
    /\ pc = "cmp"
    /\ LET o == Cmp(guess_num, secret_number)
       IN  /\ out' = Append(out, CASE o = "Less" -> TooSmallLine
                                   [] o = "Greater" -> TooBigLine
                                   [] OTHER -> WinLine)
           /\ pc' = IF o = "Less" THEN "done" ELSE "prompt"
    /\ guess_num' = U32(0)
    /\ UNCHANGED <<secret_number, guess, err, consumed, player>>

\* lines 93-100 with the Less and Greater arms exchanged.
CompareArmsSwapped ==
    /\ pc = "cmp"
    /\ LET o == Cmp(guess_num, secret_number)
       IN  /\ out' = Append(out, CASE o = "Less" -> TooBigLine
                                   [] o = "Greater" -> TooSmallLine
                                   [] OTHER -> WinLine)
           /\ pc' = IF o = "Equal" THEN "done" ELSE "prompt"
    /\ guess_num' = U32(0)
    /\ UNCHANGED <<secret_number, guess, err, consumed, player>>

\* lines 93-100 without the break.
CompareNoBreak ==
    /\ pc = "cmp"
    /\ LET o == Cmp(guess_num, secret_number)
       IN  /\ out' = Append(out, CASE o = "Less" -> TooSmallLine
                                   [] o = "Greater" -> TooBigLine
                                   [] OTHER -> WinLine)
           /\ pc' = "prompt"
    /\ guess_num' = U32(0)
    /\ UNCHANGED <<secret_number, guess, err, consumed, player>>

\* lines 93-100: the feedback of the three arms; Equal breaks out of the
\* loop and main returns, the other arms end the iteration.
Compare ==
    /\ pc = "cmp"
    /\ LET o == Cmp(guess_num, secret_number)
       IN  /\ out' = Append(out, CASE o = "Less" -> TooSmallLine
                                   [] o = "Greater" -> TooBigLine
                                   [] OTHER -> WinLine)
           /\ pc' = IF o = "Equal" THEN "done" ELSE "prompt"
    /\ guess_num' = U32(0)
    /\ UNCHANGED <<secret_number, guess, err, consumed, player>>

Next ==
    \/ Banner
    \/ GenRange
    \/ Reveal
    \/ Prompt
    \/ ReadLine
    \/ ReadEof
    \/ ReadErr
    \/ ParseGuess
    \/ EchoGuess
    \/ Compare

Spec == Init /\ [][Next]_vars

(***************************************************************************)
(* The bisecting player: answers every prompt with the midpoint of the     *)
(* interval, after narrowing the interval by the feedback line that        *)
(* precedes the prompt.  With an empty interval the player has no guess.   *)
(***************************************************************************)
Mid(iv) == (iv.lo + iv.hi) \div 2

PlayerTurn ==
    /\ pc = "read"
    /\ LET fb == out[Len(out) - 1]
           nlo == IF fb = TooSmallLine THEN Mid(player) + 1 ELSE player.lo
           nhi == IF fb = TooBigLine THEN Mid(player) - 1 ELSE player.hi
           iv == [lo |-> nlo, hi |-> nhi]
       IN  /\ player' = iv
           /\ IF nlo <= nhi
              THEN ReadOk(Fmt(U32(Mid(iv))) \o <<"\n">>)
              ELSE UNCHANGED <<pc, secret_number, guess, guess_num, out, err, consumed>>

NextBisect ==
    \/ Banner
    \/ GenRange
    \/ Reveal
    \/ Prompt
    \/ PlayerTurn
    \/ ParseGuess
    \/ EchoGuess
    \/ Compare

\* The program runs on while it can, and the player answers every prompt.
SpecBisect == Init /\ [][NextBisect]_vars /\ WF_vars(NextBisect)

(***************************************************************************)
(* Reading the run back from its standard output and its consumed input    *)
(***************************************************************************)
IsPrompt(l) == l = PromptLine

NumPrompts == Len(SelectSeq(out, IsPrompt))

\* The place in out of the k-th prompt at or after place i.
RECURSIVE PromptFrom(_, _)
PromptFrom(i, k) ==
    IF out[i] = PromptLine
    THEN IF k = 1 THEN i ELSE PromptFrom(i + 1, k - 1)
    ELSE PromptFrom(i + 1, k)

PromptAt(k) == PromptFrom(1, k)

\* What iteration k wrote after its prompt.
Segment(k) ==
    SubSeq(out, PromptAt(k) + 1,
           IF k < NumPrompts THEN PromptAt(k + 1) - 1 ELSE Len(out))

\* Iteration k has run to its end (the loop went round, or the program ended).
Processed(k) ==
    \/ k < Len(consumed)
    \/ k = Len(consumed) /\ pc \in {"prompt", "read", "done", "panicked"}

\* The read of iteration k delivered a line whose trimmed text parses.
ParsesOk(r) == r.kind = "line" /\ Parse(Trim(r.text)).ok

\* ... and parses to the secret.
ParsesToSecret(r) ==
    /\ r.kind = "line"
    /\ LET p == Parse(Trim(r.text)) IN p.ok /\ p.num = secret_number

GuessOf(r) == Parse(Trim(r.text)).num

\* The feedback the specification asks for, by the values of guess and secret.
ExpectedFeedback(g) ==
    IF g.hi = 0 /\ g.lo < secret_number.lo THEN TooSmallLine
    ELSE IF g.hi = 0 /\ g.lo = secret_number.lo THEN WinLine
    ELSE TooBigLine

IsFeedback(l) == l \in {TooSmallLine, TooBigLine, WinLine}

IsGameLine(l) == l.text = "You guessed: " \/ IsFeedback(l)

Wins(k) == ParsesToSecret(consumed[k])

(***************************************************************************)
(* C1: the loop ends normally only in an iteration whose trimmed line      *)
(* parses to the secret, and it ends at the first such line: no winning    *)
(* line is ever followed by another prompt or read.                        *)
(***************************************************************************)
C1_TerminationLaw ==
    /\ pc = "done" => Len(consumed) >= 1 /\ Wins(Len(consumed))
    /\ \A k \in 1 .. Len(consumed) :
          Wins(k) => k = Len(consumed) /\ pc \in {"parse", "echo", "cmp", "done"}

C1_Witness ==
    /\ pc = "done"
    /\ Len(consumed) = 2
    /\ ParsesOk(consumed[1])
    /\ Segment(1)[2] = TooSmallLine

(***************************************************************************)
(* C2: an iteration whose trimmed line parses to g writes the accepted     *)
(* guess and then exactly one feedback line: "Too small!!" iff g < secret, *)
(* "Too big!!" iff g > secret, "You win!!" iff g = secret.                 *)
(***************************************************************************)
C2_FeedbackByComparison ==
    \A k \in 1 .. Len(consumed) :
        Processed(k) /\ consumed[k].kind = "line" =>
            LET p == Parse(Trim(consumed[k].text))
            IN  p.ok => Segment(k) = <<GuessedLine(p.num), ExpectedFeedback(p.num)>>

C2_Witness ==
    /\ Len(consumed) = 2
    /\ Processed(2)
    /\ ParsesOk(consumed[1]) /\ ParsesOk(consumed[2])
    /\ GuessOf(consumed[1]) = U32Max
    /\ Segment(1)[2] = TooBigLine
    /\ Segment(2)[2] = TooSmallLine

(***************************************************************************)
(* C3: an iteration whose trimmed line does not parse writes nothing after *)
(* its prompt, does not end the loop, and is followed at once by the next  *)
(* prompt.                                                                 *)
(***************************************************************************)
C3_UnparsableReprompts ==
    \A k \in 1 .. Len(consumed) :
        Processed(k) /\ consumed[k].kind = "line" /\ ~ParsesOk(consumed[k]) =>
            /\ Segment(k) = <<>>
            /\ k = Len(consumed) =>
                  \/ pc = "prompt" /\ NumPrompts = k
                  \/ pc = "read" /\ NumPrompts = k + 1 /\ out[Len(out)] = PromptLine
            /\ k < Len(consumed) => NumPrompts >= k + 1

C3_Witness ==
    /\ pc = "read"
    /\ Len(consumed) = 2
    /\ consumed[1].text = <<"-", "5", "\n">>
    /\ consumed[2].text = <<"\n">>
    /\ NumPrompts = 3

(***************************************************************************)
(* C4: when the first read finds the input at its end, the program ends    *)
(* with the fatal diagnostic: it has panicked as that read returns, with   *)
(* the one prompt written and no feedback.                                 *)
(***************************************************************************)
C4_EofIsFatal ==
    Len(consumed) >= 1 /\ consumed[1].kind = "eof" =>
        /\ pc = "panicked"
        /\ err = <<PanicLine>>
        /\ NumPrompts = 1
        /\ \A i \in 1 .. Len(out) : ~IsGameLine(out[i])

(***************************************************************************)
(* C5: from its generation on the secret is an integer in 1 .. 100, and it *)
(* is the value generated at the start, the one the reveal line printed.   *)
(***************************************************************************)
C5_SecretFixed ==
    pc \notin {"banner", "gen"} =>
        /\ secret_number.hi = 0
        /\ secret_number.lo \in 1 .. 100
        /\ Len(out) >= 2 => out[2] = RevealLine(secret_number)

C5_Witness ==
    /\ Len(consumed) = 2
    /\ Processed(2)
    /\ ParsesOk(consumed[1])
    /\ ~ParsesOk(consumed[2])
    /\ secret_number = U32(100)

(***************************************************************************)
(* C6: the program ends abnormally only on a read_line error, and at once: *)
(* the failed read is the last read, the diagnostic is written once, and   *)
(* the prompt of that read is the last line of standard output.            *)
(***************************************************************************)
C6_AbortOnlyOnReadError ==
    /\ pc = "panicked" => Len(consumed) >= 1 /\ consumed[Len(consumed)].kind = "err"
    /\ pc # "panicked" => err = <<>>
    /\ \A k \in 1 .. Len(consumed) :
          consumed[k].kind = "err" =>
              /\ k = Len(consumed)
              /\ pc = "panicked"
              /\ err = <<PanicLine>>
              /\ NumPrompts = k
              /\ out[Len(out)] = PromptLine

C6_Witness ==
    /\ pc = "panicked"
    /\ Len(consumed) = 2
    /\ ParsesOk(consumed[1])

(***************************************************************************)
(* C7: standard output is the banner, the reveal line, and then per        *)
(* iteration a prompt followed by nothing or by the accepted guess and     *)
(* exactly one feedback line (still to come while the comparison is        *)
(* pending); the win message is written at most once, as the last line,    *)
(* and exactly when the program has ended normally.                        *)
(***************************************************************************)
RECURSIVE IterationsShape(_)
IterationsShape(i) ==
    IF i > Len(out) THEN TRUE
    ELSE /\ out[i] = PromptLine
         /\ IF i = Len(out) THEN TRUE
            ELSE IF out[i + 1] = PromptLine THEN IterationsShape(i + 1)
            ELSE /\ out[i + 1].text = "You guessed: "
                 /\ IF i + 1 = Len(out) THEN pc = "cmp"
                    ELSE /\ IsFeedback(out[i + 2])
                         /\ out[i + 2] = WinLine => i + 2 = Len(out)
                         /\ IterationsShape(i + 3)

C7_OutputShape ==
    /\ Len(out) >= 1 => out[1] = BannerLine
    /\ Len(out) >= 2 => out[2].text = "The secret number is "
    /\ IterationsShape(3)
    /\ pc = "done" <=> (Len(out) >= 1 /\ out[Len(out)] = WinLine)

C7_Witness ==
    /\ pc = "done"
    /\ Len(out) = 8
    /\ out[3] = PromptLine
    /\ out[5] = TooBigLine
    /\ out[6] = PromptLine
    /\ out[8] = WinLine

(***************************************************************************)
(* C8: unparsable lines are transparent.  Whenever the program is between  *)
(* iterations or has ended, the accepted guesses and feedback it has       *)
(* written are exactly those of the parsable lines it has read, in order,  *)
(* and it has ended normally iff the last of those is the secret: both are *)
(* functions of the input with its unparsable lines removed.               *)
(***************************************************************************)
RECURSIVE Transcript(_)
Transcript(valid) ==
    IF valid = <<>> THEN <<>>
    ELSE LET g == GuessOf(Head(valid))
         IN  <<GuessedLine(g), ExpectedFeedback(g)>> \o Transcript(Tail(valid))

C8_UnparsableTransparent ==
    pc \in {"prompt", "read", "done", "panicked"} =>
        LET valid == SelectSeq(consumed, ParsesOk)
        IN  /\ SelectSeq(out, IsGameLine) = Transcript(valid)
            /\ pc = "done" <=>
                  (valid # <<>> /\ ParsesToSecret(valid[Len(valid)]))

C8_Witness ==
    /\ pc = "done"
    /\ Len(consumed) = 2
    /\ consumed[1].kind = "line"
    /\ ~ParsesOk(consumed[1])
    /\ SelectSeq(out, IsGameLine) = <<GuessedLine(secret_number), WinLine>>

(***************************************************************************)
(* C9: a trimmed decimal text whose value is 2^32 or more is a parse       *)
(* failure: its iteration writes nothing after the prompt and does not     *)
(* end the loop; the value is never wrapped into a guess.                  *)
(***************************************************************************)
RECURSIVE StripZeros(_)
StripZeros(s) ==
    IF s # <<>> /\ Head(s) = "0" THEN StripZeros(Tail(s)) ELSE s

TwoTo32 == <<"4", "2", "9", "4", "9", "6", "7", "2", "9", "6">>

\* s is a decimal numeral of a value >= 2^32, decided on the digits.
AtLeastTwoTo32(s) ==
    /\ s # <<>>
    /\ \A i \in 1 .. Len(s) : IsDigit(s[i])
    /\ LET z == StripZeros(s)
       IN  \/ Len(z) > 10
           \/ /\ Len(z) = 10
              /\ \/ z = TwoTo32
                 \/ \E i \in 1 .. 10 :
                       /\ DigitVal(z[i]) > DigitVal(TwoTo32[i])
                       /\ \A j \in 1 .. i - 1 : z[j] = TwoTo32[j]

C9_OverflowIsParseFailure ==
    \A k \in 1 .. Len(consumed) :
        consumed[k].kind = "line" /\ AtLeastTwoTo32(Trim(consumed[k].text)) =>
            /\ ~Wins(k)
            /\ Processed(k) =>
                  /\ Segment(k) = <<>>
                  /\ ~(k = Len(consumed) /\ pc = "done")

C9_Witness ==
    /\ pc = "prompt"
    /\ Len(consumed) = 1
    /\ consumed[1].text = Past32(secret_number.lo) \o <<"\n">>
    /\ AtLeastTwoTo32(Trim(consumed[1].text))
    /\ NumPrompts = 1

(***************************************************************************)
(* C10: the bisecting player on [1, 100] never empties the interval, which *)
(* always holds the secret, makes at most 7 guesses, all of them accepted, *)
(* and receives "You win!!".                                               *)
(***************************************************************************)
C10_BisectionSafe ==
    /\ player.lo <= player.hi
    /\ pc \notin {"banner", "gen"} =>
          player.lo <= secret_number.lo /\ secret_number.lo <= player.hi
    /\ Len(consumed) <= 7
    /\ \A k \in 1 .. Len(consumed) : ParsesOk(consumed[k])

C10_BisectionWins ==
    /\ []C10_BisectionSafe
    /\ <>(pc = "done" /\ out[Len(out)] = WinLine /\ Len(consumed) <= 7)

C10_Witness ==
    /\ pc = "done"
    /\ Len(consumed) = 7
    /\ out[Len(out)] = WinLine
    /\ secret_number = U32(100)

====
